---- MODULE Spec2Model ----
(***************************************************************************)
(* Model of the two scripts of the repository:                             *)
(*   z_image_batch.py    main(): job builder and generation driver         *)
(*   organize_assets.py  organize_assets(): asset reconciler               *)
(*                                                                         *)
(* Python strings are sequences of one-character strings, so that lower(), *)
(* replace(), split(), join(), startswith() and the f-string concatenation *)
(* are computed character by character.  A dict key that may be missing is *)
(* an option: <<>> when the key is absent, <<v>> when it is present.       *)
(* Integers that may reach 2^32 are kept as two limbs <<hi, lo>> with      *)
(* value hi * 2^16 + lo and 0 <= lo < 2^16.                                *)
(***************************************************************************)
EXTENDS Integers, Sequences, FiniteSets, TLC

VARIABLES
    \* ---- z_image_batch.py: main()
    args,        \* the parsed command line
    fileExists,  \* os.path.exists(args.PromptJsonFile)
    manifest,    \* the entries of the manifest file
    pipeOk,      \* whether DiffusionPipeline.from_pretrained succeeds
    now,         \* the wall clock, in minutes since 2024-01-01 00:00
    ticks,       \* number of clock advances so far
    pc,          \* position of main()
    exitReason,  \* how main() returned
    dirCreated,  \* whether os.makedirs(output_dir) has run
    k,           \* index of the next manifest entry to build
    prompts_to_process, \* the job queue
    built,       \* the descriptors as they were appended (history)
    keywords,    \* the sanitized keyword of each built job (history)
    i,           \* index (0-based) of the job being processed
    calls,       \* invocations of the generation capability, in order
    warnings,    \* dimension-adjustment warnings printed, in order
    staged,      \* the files written by img.save: path -> job that wrote it
    log,         \* the driver's events, in order
    \* ---- organize_assets.py: organize_assets()
    prompts,     \* data["image_prompts"]: the manifest's ids, in order
    jsonExists,  \* whether assets/graphics_batch.json exists
    sourceDir,   \* backgrounds/: the filenames, in listing order
    files,       \* the listing taken by os.listdir for the current run
    fs,          \* the files of both directories: path -> content
    before,      \* fs at the start of the current run (history)
    targetExists,\* whether assets/textures exists
    rpc,         \* position of organize_assets()
    run,         \* which run of organize_assets() this is (1 or 2)
    p,           \* index of the next manifest entry to reconcile
    moved_count, \* the count reported at the end of the run
    copies,      \* the copies made in the current run, in order (history)
    firstRun     \* fs and moved_count at the end of run 1 (history)

mainVars == <<args, fileExists, manifest, pipeOk, now, ticks, pc, exitReason,
              dirCreated, k, prompts_to_process, built, keywords, i, calls,
              warnings, staged, log>>
recVars == <<prompts, jsonExists, sourceDir, files, fs, before, targetExists,
             rpc, run, p, moved_count, copies, firstRun>>
vars == <<mainVars, recVars>>

-----------------------------------------------------------------------------
(* Bounds of the model *)

\* largest width and height given on the command line in single-prompt mode
MaxDim == 34
\* longest manifest built from the core entries
MaxItems == 3
\* number of times the clock advances during one run
MaxTicks == 1
\* longest manifest and longest directory listing of the reconciler
MaxIds == 2
MaxFiles == 2

-----------------------------------------------------------------------------
(* Python values *)

Absent == <<>>
Some(v) == <<v>>

\* dict.get(key): truthiness of the result (None, "" and [] are falsy)
Truthy(o) == o # <<>> /\ o[1] # <<>>

\* a or b
PyOr(a, b) == IF Truthy(a) THEN a ELSE b

\* dict.get(key, default)
GetOr(o, d) == IF o = <<>> THEN d ELSE o[1]

\* two-limb integers: value hi * 2^16 + lo
Limb == 2^16
Wide(n) == <<n \div Limb, n % Limb>>
WideSub(a, n) == IF a[2] - n >= 0 THEN <<a[1], a[2] - n>>
                 ELSE <<a[1] - 1, a[2] - n + Limb>>
WideLe(a, b) == a[1] < b[1] \/ (a[1] = b[1] /\ a[2] <= b[2])
WideLt(a, b) == a[1] < b[1] \/ (a[1] = b[1] /\ a[2] < b[2])
\* 2**32
TwoPow32 == <<Limb, 0>>

BoundedSeq(S, n) == UNION {[1..m -> S] : m \in 0..n}

-----------------------------------------------------------------------------
(* Python string operations, character by character *)

\* str.lower() on the letters of the model's alphabet
LowerChar(c) == CASE c = "A" -> "a"
                  [] c = "D" -> "d"
                  [] c = "H" -> "h"
                  [] OTHER -> c
lower(s) == [j \in 1..Len(s) |-> LowerChar(s[j])]

\* str.replace(" ", "_")
replace_space(s) == [j \in 1..Len(s) |-> IF s[j] = " " THEN "_" ELSE s[j]]

\* str.isalnum() on one character of the model's alphabet
isalnum(c) == c \in {"A", "D", "H", "a", "b", "c", "d", "e", "f", "h", "p",
                     "x", "y", "z", "0", "1", "2", "3", "4", "5", "6", "7",
                     "8", "9"}

\* str.split(): the maximal runs of non-whitespace characters
RECURSIVE SplitFrom(_, _, _)
SplitFrom(s, j, cur) ==
    IF j > Len(s) THEN (IF cur = <<>> THEN <<>> ELSE <<cur>>)
    ELSE IF s[j] = " "
         THEN (IF cur = <<>> THEN <<>> ELSE <<cur>>) \o SplitFrom(s, j + 1, <<>>)
         ELSE SplitFrom(s, j + 1, Append(cur, s[j]))
split(s) == SplitFrom(s, 1, <<>>)

\* list[:n]
Take(l, n) == SubSeq(l, 1, IF Len(l) < n THEN Len(l) ELSE n)

\* "_".join(list)
RECURSIVE join_(_)
join_(l) == IF l = <<>> THEN <<>>
            ELSE IF Len(l) = 1 THEN l[1]
            ELSE l[1] \o <<"_">> \o join_(Tail(l))

\* str.startswith(prefix)
startswith(s, pre) == Len(pre) <= Len(s) /\ SubSeq(s, 1, Len(pre)) = pre

\* str(n) for n >= 0, as the f-string formats an int
Digit(d) == CASE d = 0 -> "0" [] d = 1 -> "1" [] d = 2 -> "2" [] d = 3 -> "3"
              [] d = 4 -> "4" [] d = 5 -> "5" [] d = 6 -> "6" [] d = 7 -> "7"
              [] d = 8 -> "8" [] d = 9 -> "9"
RECURSIVE str(_)
str(n) == IF n < 10 THEN <<Digit(n)>> ELSE str(n \div 10) \o <<Digit(n % 10)>>

\* zero-padded two-digit field of strftime
Pad2(n) == <<Digit((n \div 10) % 10), Digit(n % 10)>>

\* datetime.now().strftime("%Y%m%d-%H%mmss"): year, month, day, "-", hour,
\* month again (%m), then the literal text "mss"
strftime(t) ==
    LET day   == 1 + (t \div 1440)
        hour  == (t \div 60) % 24
    IN  str(2024) \o Pad2(1) \o Pad2(day) \o <<"-">> \o Pad2(hour)
        \o Pad2(1) \o <<"m", "s", "s">>

-----------------------------------------------------------------------------
(* z_image_batch.py: the job builder *)

\* argparse defaults
DefaultWidth == 1024
DefaultHeight == 1024
DefaultSteps == 9
DefaultCFG == 0
DefaultSeed == Wide(-1)
DefaultNegativePrompt == <<"b", "a", "d">>
DefaultOutputPath == <<"g", ".", "p", "n", "g">>

\* p_text = item.get('Prompt') or item.get('description') or item.get('title')
\* (faulty variant: the priority reversed)
PromptTextOf_TitleFirst(item) ==
    PyOr(PyOr(item.title, item.description), item.Prompt)
PromptTextOf(item) == PyOr(PyOr(item.Prompt, item.description), item.title)

\* the keyword before sanitizing
RawKeyword(item) ==
    IF Truthy(item.tags) THEN lower(join_(item.tags[1]))
    ELSE IF Truthy(item.title) THEN replace_space(lower(item.title[1]))
    ELSE IF Truthy(item.description)
         THEN lower(join_(Take(split(item.description[1]), 2)))
    ELSE <<"i", "m", "a", "g", "e">>

\* "".join(c for c in keyword if c.isalnum() or c in ('_', '-'))
Sanitize(s) == SelectSeq(s, LAMBDA c : isalnum(c) \/ c \in {"_", "-"})

KeywordOf(item) == Sanitize(RawKeyword(item))

\* f"{item['id']}_" if item.get('id') else ""
IdPrefix(item) == IF Truthy(item.id) THEN item.id[1] \o <<"_">> ELSE <<>>

\* f"{id_prefix}{keyword}_{w}x{h}_{timestamp}.png"
Filename(item, w, h, t) ==
    IdPrefix(item) \o KeywordOf(item) \o <<"_">> \o str(w) \o <<"x">> \o str(h)
    \o <<"_">> \o strftime(t) \o <<".", "p", "n", "g">>

\* os.path.join(output_dir, filename)
OutputDir == "backgrounds"
PathJoin(dir, name) == [dir |-> dir, name |-> name]

\* the descriptor appended for one manifest entry
JobOf(item, a, t) ==
    LET w == GetOr(item.Width, a.Width)
        h == GetOr(item.Height, a.Height)
    IN  [prompt          |-> PromptTextOf(item)[1],
         negative_prompt |-> GetOr(item.NegativePrompt, a.NegativePrompt),
         width           |-> w,
         height          |-> h,
         output_path     |-> PathJoin(OutputDir, Filename(item, w, h, t)),
         seed            |-> GetOr(item.Seed, a.Seed),
         steps           |-> GetOr(item.Steps, a.Steps),
         cfg             |-> GetOr(item.CFG, a.CFG)]

\* the descriptor appended in single-prompt mode
SingleJob(a) ==
    [prompt          |-> a.Prompt[1],
     negative_prompt |-> a.NegativePrompt,
     width           |-> a.Width,
     height          |-> a.Height,
     output_path     |-> PathJoin("cwd", a.OutputPath),
     seed            |-> a.Seed,
     steps           |-> a.Steps,
     cfg             |-> a.CFG]

-----------------------------------------------------------------------------
(* z_image_batch.py: the generation driver *)

\* (p['width'] // 16) * 16
\* (faulty variant: rounding up)
NormalizeDim_RoundUp(d) == ((d + 15) \div 16) * 16
NormalizeDim(d) == (d \div 16) * 16

\* if p['width'] != orig_w or p['height'] != orig_h
ShouldWarn(w, h, orig_w, orig_h) == w # orig_w \/ h # orig_h

\* random.randint(a, b): an integer N with a <= N <= b.  The model draws from
\* both ends of the range and the value next to the upper end.
randint(a, b) == {a, WideSub(b, 1), b}

\* generate_image: if seed == -1: seed = random.randint(0, 2**32 - 1)
\* (faulty variant: every seed replaced)
ResolveSeed_Always(seed, r) == r
ResolveSeed(seed, r) == IF seed = Wide(-1) THEN r ELSE seed

\* if i < len(prompts_to_process) - 1 and args.DelaySeconds > 0
\* (faulty variant: also after the last job)
ShouldSleep_AfterLast(idx, n, delay) == idx <= n - 1 /\ delay > 0
ShouldSleep(idx, n, delay) == idx < n - 1 /\ delay > 0

Event(e, j) == [ev |-> e, job |-> j]

-----------------------------------------------------------------------------
(* Inputs of main() *)

NoFields == [id |-> Absent, tags |-> Absent, title |-> Absent,
             description |-> Absent, Prompt |-> Absent,
             NegativePrompt |-> Absent, Width |-> Absent, Height |-> Absent,
             Seed |-> Absent, Steps |-> Absent, CFG |-> Absent]

IdA == <<"a">>
DescDEF == <<"D", " ", "e", "!", " ", "f">>
TitleAb == <<"A", " ", "b">>

\* entries that differ in the fields the prompt text and the keyword read
TextItems ==
    {[NoFields EXCEPT !.Prompt = pr, !.description = de, !.title = ti,
                      !.tags = ta, !.id = d] :
        pr \in {Absent, Some(<<>>), Some(<<"p">>)},
        de \in {Absent, Some(DescDEF), Some(<<"!">>)},
        ti \in {Absent, Some(<<>>), Some(<<"!", "!">>), Some(TitleAb)},
        ta \in {Absent, Some(<<>>), Some(<< <<"H">>, <<"c", "-", "x">> >>),
                Some(<< <<"!">> >>)},
        d  \in {Absent, Some(IdA)}}

\* entries that differ in which overrides they carry
OverrideItems ==
    {[NoFields EXCEPT !.id = Some(IdA), !.description = Some(DescDEF),
                      !.NegativePrompt = np, !.Width = w, !.Height = h,
                      !.Seed = sd, !.Steps = st, !.CFG = cf] :
        np \in {Absent, Some(<<"x">>)},
        w  \in {Absent, Some(48)},
        h  \in {Absent, Some(24)},
        sd \in {Absent, Some(Wide(3))},
        st \in {Absent, Some(4)},
        cf \in {Absent, Some(7)}}

\* the entries longer manifests are made of
CoreItems ==
    { [NoFields EXCEPT !.id = Some(IdA), !.description = Some(DescDEF)],
      [NoFields EXCEPT !.id = Some(IdA), !.description = Some(DescDEF),
                       !.Width = Some(8), !.Seed = Some(Wide(3))],
      [NoFields EXCEPT !.id = Some(IdA)],
      [NoFields EXCEPT !.title = Some(TitleAb), !.Width = Some(40),
                       !.Seed = Some(Wide(-1))] }

Manifests == {<<it>> : it \in TextItems \cup OverrideItems}
             \cup BoundedSeq(CoreItems, MaxItems)

DefaultArgs == [Prompt |-> Absent, PromptJsonFile |-> Absent,
                Width |-> DefaultWidth, Height |-> DefaultHeight,
                NegativePrompt |-> DefaultNegativePrompt,
                OutputPath |-> DefaultOutputPath, Steps |-> DefaultSteps,
                CFG |-> DefaultCFG, Seed |-> DefaultSeed, DelaySeconds |-> 0]

PromptP == <<"p">>
JsonM == <<"m">>

\* which input mode is selected, whether the manifest file exists, whether
\* the model loads
ConfigInputs ==
    {[args |-> [DefaultArgs EXCEPT !.Prompt = pr, !.PromptJsonFile = jf],
      fileExists |-> fe, pipeOk |-> ok, now |-> 600,
      manifest |-> << [NoFields EXCEPT !.id = Some(IdA),
                                       !.description = Some(DescDEF)] >>] :
        pr \in {Absent, Some(PromptP)}, jf \in {Absent, Some(JsonM)},
        fe \in BOOLEAN, ok \in BOOLEAN}

\* single-prompt mode over a range of sizes, seeds and delays
SingleInputs ==
    {[args |-> [DefaultArgs EXCEPT !.Prompt = Some(PromptP), !.Width = w,
                                   !.Height = h, !.Seed = sd,
                                   !.DelaySeconds = dl],
      fileExists |-> FALSE, pipeOk |-> TRUE, now |-> 600, manifest |-> <<>>] :
        w \in 1..MaxDim, h \in 1..MaxDim,
        sd \in {Wide(-1), Wide(0), Wide(7)}, dl \in {0, 2}}

\* manifest mode
ManifestInputs ==
    {[args |-> [DefaultArgs EXCEPT !.PromptJsonFile = Some(JsonM),
                                   !.Seed = Wide(5), !.DelaySeconds = dl],
      fileExists |-> TRUE, pipeOk |-> TRUE, now |-> t, manifest |-> m] :
        dl \in {0, 2}, t \in {600, 630}, m \in Manifests}

MainInputs == ConfigInputs \cup SingleInputs \cup ManifestInputs

-----------------------------------------------------------------------------
(* z_image_batch.py: main(), step by step *)

MainIdle ==
    /\ args = DefaultArgs /\ fileExists = FALSE /\ manifest = <<>>
    /\ pipeOk = FALSE /\ now = 0 /\ ticks = 0 /\ pc = "off"
    /\ exitReason = "" /\ dirCreated = FALSE /\ k = 0
    /\ prompts_to_process = <<>> /\ built = <<>> /\ keywords = <<>> /\ i = 0
    /\ calls = <<>> /\ warnings = <<>> /\ staged = <<>> /\ log = <<>>

MainInit ==
    /\ \E in \in MainInputs :
          /\ args = in.args
          /\ fileExists = in.fileExists
          /\ manifest = in.manifest
          /\ pipeOk = in.pipeOk
          /\ now = in.now
    /\ ticks = 0
    /\ pc = "start"
    /\ exitReason = ""
    /\ dirCreated = FALSE
    /\ k = 0
    /\ prompts_to_process = <<>>
    /\ built = <<>>
    /\ keywords = <<>>
    /\ i = 0
    /\ calls = <<>>
    /\ warnings = <<>>
    /\ staged = <<>>
    /\ log = <<>>

\* the wall clock advances while the manifest is read and the queue built
Tick ==
    /\ pc \in {"parse", "build"}
    /\ ticks < MaxTicks
    /\ now' = now + 30
    /\ ticks' = ticks + 1
    /\ UNCHANGED <<args, fileExists, manifest, pipeOk, pc, exitReason,
                   dirCreated, k, prompts_to_process, built, keywords, i,
                   calls, warnings, staged, log, recVars>>

\* pipe = setup_pipeline(args.Model); if not pipe: return
SetupFail ==
    /\ pc = "start"
    /\ ~pipeOk
    /\ pc' = "exit"
    /\ exitReason' = "pipeline"
    /\ UNCHANGED <<args, fileExists, manifest, pipeOk, now, ticks, dirCreated,
                   k, prompts_to_process, built, keywords, i, calls, warnings,
                   staged, log, recVars>>

\* the pipeline loads; os.makedirs(output_dir, exist_ok=True)
Setup ==
    /\ pc = "start"
    /\ pipeOk
    /\ dirCreated' = TRUE
    /\ pc' = "parse"
    /\ UNCHANGED <<args, fileExists, manifest, pipeOk, now, ticks, exitReason,
                   k, prompts_to_process, built, keywords, i, calls, warnings,
                   staged, log, recVars>>

\* if args.Prompt: one job with the caller's output path
SingleMode ==
    /\ pc = "parse"
    /\ Truthy(args.Prompt)
    /\ prompts_to_process' = <<SingleJob(args)>>
    /\ built' = <<SingleJob(args)>>
    /\ pc' = "loop"
    /\ UNCHANGED <<args, fileExists, manifest, pipeOk, now, ticks, exitReason,
                   dirCreated, k, keywords, i, calls, warnings, staged, log,
                   recVars>>

\* elif args.PromptJsonFile: if not os.path.exists(...): print error; return
ManifestMissing ==
    /\ pc = "parse"
    /\ ~Truthy(args.Prompt)
    /\ Truthy(args.PromptJsonFile)
    /\ ~fileExists
    /\ pc' = "exit"
    /\ exitReason' = "not_found"
    /\ UNCHANGED <<args, fileExists, manifest, pipeOk, now, ticks, dirCreated,
                   k, prompts_to_process, built, keywords, i, calls, warnings,
                   staged, log, recVars>>

\* the manifest is opened and parsed
LoadManifest ==
    /\ pc = "parse"
    /\ ~Truthy(args.Prompt)
    /\ Truthy(args.PromptJsonFile)
    /\ fileExists
    /\ k' = 1
    /\ pc' = "build"
    /\ UNCHANGED <<args, fileExists, manifest, pipeOk, now, ticks, exitReason,
                   dirCreated, prompts_to_process, built, keywords, i, calls,
                   warnings, staged, log, recVars>>

\* else: print("Please provide --Prompt or --PromptJsonFile"); return
Usage ==
    /\ pc = "parse"
    /\ ~Truthy(args.Prompt)
    /\ ~Truthy(args.PromptJsonFile)
    /\ pc' = "exit"
    /\ exitReason' = "usage"
    /\ UNCHANGED <<args, fileExists, manifest, pipeOk, now, ticks, dirCreated,
                   k, prompts_to_process, built, keywords, i, calls, warnings,
                   staged, log, recVars>>

\* for item in items: if not p_text: continue
SkipItem ==
    /\ pc = "build"
    /\ k <= Len(manifest)
    /\ ~Truthy(PromptTextOf(manifest[k]))
    /\ k' = k + 1
    /\ UNCHANGED <<args, fileExists, manifest, pipeOk, now, ticks, pc,
                   exitReason, dirCreated, prompts_to_process, built, keywords,
                   i, calls, warnings, staged, log, recVars>>

\* for item in items: ... prompts_to_process.append({...})
BuildItem ==
    /\ pc = "build"
    /\ k <= Len(manifest)
    /\ Truthy(PromptTextOf(manifest[k]))
    /\ prompts_to_process' = Append(prompts_to_process,
                                    JobOf(manifest[k], args, now))
    /\ built' = Append(built, JobOf(manifest[k], args, now))
    /\ keywords' = Append(keywords, KeywordOf(manifest[k]))
    /\ k' = k + 1
    /\ UNCHANGED <<args, fileExists, manifest, pipeOk, now, ticks, pc,
                   exitReason, dirCreated, i, calls, warnings, staged, log,
                   recVars>>

\* the for loop over the manifest ends
BuildDone ==
    /\ pc = "build"
    /\ k > Len(manifest)
    /\ pc' = "loop"
    /\ UNCHANGED <<args, fileExists, manifest, pipeOk, now, ticks, exitReason,
                   dirCreated, k, prompts_to_process, built, keywords, i,
                   calls, warnings, staged, log, recVars>>

\* one iteration of the driver's loop up to the delay: normalize, warn,
\* generate_image, img.save
ProcessJob ==
    /\ pc = "loop"
    /\ i < Len(prompts_to_process)
    /\ LET job    == prompts_to_process[i + 1]
           orig_w == job.width
           orig_h == job.height
           w      == NormalizeDim(orig_w)
           h      == NormalizeDim(orig_h)
       IN  \E r \in randint(Wide(0), WideSub(TwoPow32, 1)) :
             /\ prompts_to_process' =
                    [prompts_to_process EXCEPT ![i + 1].width = w,
                                               ![i + 1].height = h]
             /\ warnings' = IF ShouldWarn(w, h, orig_w, orig_h)
                            THEN Append(warnings,
                                        [job |-> i + 1, orig_w |-> orig_w,
                                         orig_h |-> orig_h, w |-> w, h |-> h])
                            ELSE warnings
             /\ calls' = Append(calls,
                                [job |-> i + 1,
                                 prompt |-> job.prompt,
                                 negative_prompt |-> job.negative_prompt,
                                 width |-> w,
                                 height |-> h,
                                 steps |-> job.steps,
                                 cfg |-> job.cfg,
                                 seed |-> ResolveSeed(job.seed, r)])
             /\ staged' = (job.output_path :> (i + 1)) @@ staged
             /\ log' = log \o <<Event("dispatch", i + 1), Event("saved", i + 1)>>
             /\ IF ShouldSleep(i, Len(prompts_to_process), args.DelaySeconds)
                THEN pc' = "sleep" /\ i' = i
                ELSE pc' = "loop" /\ i' = i + 1
    /\ UNCHANGED <<args, fileExists, manifest, pipeOk, now, ticks, exitReason,
                   dirCreated, k, built, keywords, recVars>>

\* time.sleep(args.DelaySeconds)
Sleep ==
    /\ pc = "sleep"
    /\ log' = Append(log, Event("sleep", i + 1))
    /\ i' = i + 1
    /\ pc' = "loop"
    /\ UNCHANGED <<args, fileExists, manifest, pipeOk, now, ticks, exitReason,
                   dirCreated, k, prompts_to_process, built, keywords, calls,
                   warnings, staged, recVars>>

\* the driver's loop ends and main() returns
LoopDone ==
    /\ pc = "loop"
    /\ i = Len(prompts_to_process)
    /\ pc' = "exit"
    /\ exitReason' = "ok"
    /\ UNCHANGED <<args, fileExists, manifest, pipeOk, now, ticks, dirCreated,
                   k, prompts_to_process, built, keywords, i, calls, warnings,
                   staged, log, recVars>>

-----------------------------------------------------------------------------
(* organize_assets.py *)

SourceDirName == "backgrounds"
TargetDirName == "assets/textures"

\* os.listdir(source_dir): the directory's entries that exist, in the
\* directory's own order
listdir(order, f) ==
    SelectSeq(order, LAMBDA n : PathJoin(SourceDirName, n) \in DOMAIN f)

\* candidates = [filename for filename in files if filename.startswith(img_id)]
Candidates(listing, img_id) ==
    SelectSeq(listing, LAMBDA n : startswith(n, img_id))

\* best_candidate = candidates[0]
\* (faulty variant: the last candidate instead of the first)
BestCandidate_Last(candidates) == candidates[Len(candidates)]
BestCandidate(candidates) == candidates[1]

\* dest_filename = f"{img_id}.png"
DestFilename(img_id) == img_id \o <<".", "p", "n", "g">>

\* shutil.copy2(src_path, dest_path)
\* (faulty variant: a move, which removes the source)
MoveFile(f, src, dst) ==
    [q \in (DOMAIN f \cup {dst}) \ {src} |-> IF q = dst THEN f[src] ELSE f[q]]
CopyFile(f, src, dst) == (dst :> f[src]) @@ f

-----------------------------------------------------------------------------
(* Inputs of organize_assets() *)

Ids == {<<>>, <<"a">>, <<"a", "b">>, <<"b">>}
Names == {<<"a">>, <<"a", "b", "1">>, <<"b", "_", "x">>, <<"A", "b">>}

Injective(q) == \A x, y \in DOMAIN q : q[x] = q[y] => x = y
Listings == {l \in BoundedSeq(Names, MaxFiles) : Injective(l)}

\* what assets/textures holds before the first run
StaleData == <<"o", "l", "d">>
InitialTextures ==
    { <<>>,
      PathJoin(TargetDirName, DestFilename(<<"a">>)) :> StaleData,
      PathJoin(TargetDirName, <<"k">>) :> StaleData }

SourceFiles(l) ==
    [q \in {PathJoin(SourceDirName, l[j]) : j \in 1..Len(l)} |-> q.name]

RecIdle ==
    /\ prompts = <<>> /\ jsonExists = FALSE /\ sourceDir = <<>> /\ files = <<>>
    /\ fs = <<>> /\ before = <<>> /\ targetExists = FALSE /\ rpc = "off"
    /\ run = 0 /\ p = 0 /\ moved_count = 0 /\ copies = <<>>
    /\ firstRun = [fs |-> <<>>, count |-> 0]

RecInit ==
    /\ prompts \in BoundedSeq(Ids, MaxIds)
    /\ jsonExists \in BOOLEAN
    /\ sourceDir \in Listings
    /\ \E t \in InitialTextures :
          /\ fs = SourceFiles(sourceDir) @@ t
          /\ targetExists \in {TRUE, t # <<>>}
    /\ before = fs
    /\ files = <<>>
    /\ rpc = "start"
    /\ run = 1
    /\ p = 0
    /\ moved_count = 0
    /\ copies = <<>>
    /\ firstRun = [fs |-> fs, count |-> 0]

\* os.makedirs(target_dir); graphics_batch.json is missing: print and return
RecNoManifest ==
    /\ rpc = "start"
    /\ ~jsonExists
    /\ targetExists' = TRUE
    /\ before' = fs
    /\ copies' = <<>>
    /\ moved_count' = 0
    /\ rpc' = "aborted"
    /\ UNCHANGED <<prompts, jsonExists, sourceDir, files, fs, run, p, firstRun,
                   mainVars>>

\* os.makedirs(target_dir); json.load; files = os.listdir(source_dir)
RecStart ==
    /\ rpc = "start"
    /\ jsonExists
    /\ targetExists' = TRUE
    /\ before' = fs
    /\ files' = listdir(sourceDir, fs)
    /\ moved_count' = 0
    /\ copies' = <<>>
    /\ p' = 1
    /\ rpc' = "loop"
    /\ UNCHANGED <<prompts, jsonExists, sourceDir, fs, run, firstRun, mainVars>>

\* if not candidates: print warning; continue
RecSkip ==
    /\ rpc = "loop"
    /\ p <= Len(prompts)
    /\ Candidates(files, prompts[p]) = <<>>
    /\ p' = p + 1
    /\ UNCHANGED <<prompts, jsonExists, sourceDir, files, fs, before,
                   targetExists, rpc, run, moved_count, copies, firstRun,
                   mainVars>>

\* shutil.copy2(src_path, dest_path); moved_count += 1
RecCopy ==
    /\ rpc = "loop"
    /\ p <= Len(prompts)
    /\ Candidates(files, prompts[p]) # <<>>
    /\ LET img_id         == prompts[p]
           best_candidate == BestCandidate(Candidates(files, img_id))
           src_path       == PathJoin(SourceDirName, best_candidate)
           dest_path      == PathJoin(TargetDirName, DestFilename(img_id))
       IN  /\ fs' = CopyFile(fs, src_path, dest_path)
           /\ copies' = Append(copies, [id |-> img_id, src |-> best_candidate,
                                        dest |-> DestFilename(img_id)])
    /\ moved_count' = moved_count + 1
    /\ p' = p + 1
    /\ UNCHANGED <<prompts, jsonExists, sourceDir, files, before, targetExists,
                   rpc, run, firstRun, mainVars>>

\* the loop ends: print(f"Successfully organized {moved_count} assets.")
RecDone ==
    /\ rpc = "loop"
    /\ p > Len(prompts)
    /\ rpc' = "done"
    /\ firstRun' = IF run = 1 THEN [fs |-> fs, count |-> moved_count]
                   ELSE firstRun
    /\ UNCHANGED <<prompts, jsonExists, sourceDir, files, fs, before,
                   targetExists, run, p, moved_count, copies, mainVars>>

\* the script is run a second time on what the first run left
RecAgain ==
    /\ rpc \in {"done", "aborted"}
    /\ run = 1
    /\ run' = 2
    /\ rpc' = "start"
    /\ UNCHANGED <<prompts, jsonExists, sourceDir, files, fs, before,
                   targetExists, p, moved_count, copies, firstRun, mainVars>>

-----------------------------------------------------------------------------
(* Specifications *)

Init == MainInit /\ RecIdle

Next ==
    \/ Tick
    \/ SetupFail
    \/ Setup
    \/ SingleMode
    \/ ManifestMissing
    \/ LoadManifest
    \/ Usage
    \/ SkipItem
    \/ BuildItem
    \/ BuildDone
    \/ ProcessJob
    \/ Sleep
    \/ LoopDone

Spec == Init /\ [][Next]_vars

InitReconcile == MainIdle /\ RecInit

NextReconcile ==
    \/ RecNoManifest
    \/ RecStart
    \/ RecSkip
    \/ RecCopy
    \/ RecDone
    \/ RecAgain

SpecReconcile == InitReconcile /\ [][NextReconcile]_vars

-----------------------------------------------------------------------------
(* Properties of organize_assets() *)

IsPrefix(pre, s) ==
    Len(pre) <= Len(s) /\ \A j \in 1..Len(pre) : s[j] = pre[j]

HasMatch(img_id) == \E j \in 1..Len(files) : IsPrefix(img_id, files[j])

FirstMatch(img_id) ==
    files[CHOOSE j \in 1..Len(files) :
             /\ IsPrefix(img_id, files[j])
             /\ \A j2 \in 1..(j - 1) : ~IsPrefix(img_id, files[j2])]

CanonicalPath(img_id) ==
    [dir |-> TargetDirName, name |-> img_id \o <<".", "p", "n", "g">>]
StagedPath(n) == [dir |-> SourceDirName, name |-> n]

MatchedEntries ==
    SelectSeq([j \in 1..Len(prompts) |-> j], LAMBDA j : HasMatch(prompts[j]))

SameAt(f, g, q) ==
    /\ q \in DOMAIN f <=> q \in DOMAIN g
    /\ q \in DOMAIN f => f[q] = g[q]

\* C1: when a run of organize_assets ends, every manifest id with at least
\* one listed filename starting with it has {id}.png holding the content of
\* the first such filename in listing order; an id with no such filename has
\* nothing written for it and the later ids are still processed; nothing else
\* is written; the copies were made in manifest order and the reported count
\* is the number of manifest entries that had a candidate, duplicates included.
C1_FirstMatchCopied ==
    rpc = "done" =>
        /\ \A j \in 1..Len(prompts) :
              IF HasMatch(prompts[j])
              THEN /\ CanonicalPath(prompts[j]) \in DOMAIN fs
                   /\ fs[CanonicalPath(prompts[j])] =
                          before[StagedPath(FirstMatch(prompts[j]))]
              ELSE SameAt(fs, before, CanonicalPath(prompts[j]))
        /\ \A q \in DOMAIN fs \cup DOMAIN before :
              (\A j \in 1..Len(prompts) :
                    HasMatch(prompts[j]) => q # CanonicalPath(prompts[j]))
              => SameAt(fs, before, q)
        /\ moved_count = Len(MatchedEntries)
        /\ Len(copies) = Len(MatchedEntries)
        /\ \A c \in 1..Len(copies) :
              /\ copies[c].id = prompts[MatchedEntries[c]]
              /\ copies[c].src = FirstMatch(prompts[MatchedEntries[c]])
              /\ CanonicalPath(copies[c].id).name = copies[c].dest

\* two entries share an id that has two candidates, both are counted, and a
\* stale canonical file was overwritten
C1_Witness ==
    /\ rpc = "done"
    /\ Len(prompts) >= 2
    /\ prompts[1] = prompts[2]
    /\ moved_count >= 2
    /\ Len(Candidates(files, prompts[1])) >= 2
    /\ CanonicalPath(prompts[1]) \in DOMAIN before
    /\ before[CanonicalPath(prompts[1])] = StaleData

SourceFilesOf(f) == {q \in DOMAIN f : q.dir = SourceDirName}

\* C2: a second run of organize_assets on what the first run left ends with
\* the same files and contents as the first run and reports the same count,
\* and no run changes the files of the source directory.
C2_Idempotent ==
    /\ rpc \in {"loop", "done"} =>
          /\ SourceFilesOf(fs) = SourceFilesOf(before)
          /\ \A q \in SourceFilesOf(fs) : fs[q] = before[q]
    /\ (run = 2 /\ rpc = "done") =>
          /\ fs = firstRun.fs
          /\ moved_count = firstRun.count

\* the second run has ended after copying, and the first run had changed the
\* store
C2_Witness ==
    /\ run = 2
    /\ rpc = "done"
    /\ moved_count >= 1
    /\ Len(Candidates(files, copies[1].id)) >= 2
    /\ \E q \in DOMAIN fs : q.dir = TargetDirName /\ fs[q] # StaleData

-----------------------------------------------------------------------------
(* Properties of main() *)

ManifestMode == ~Truthy(args.Prompt) /\ Truthy(args.PromptJsonFile)
QueueBuilt == pc \in {"loop", "sleep"} \/ (pc = "exit" /\ exitReason = "ok")

NonEmpty(o) == Len(o) = 1 /\ Len(o[1]) > 0
HasText(e) == NonEmpty(e.Prompt) \/ NonEmpty(e.description) \/ NonEmpty(e.title)
FirstNonEmpty(e) == CASE NonEmpty(e.Prompt) -> e.Prompt[1]
                      [] NonEmpty(e.description) -> e.description[1]
                      [] OTHER -> e.title[1]
UsableEntries ==
    SelectSeq([j \in 1..Len(manifest) |-> j], LAMBDA j : HasText(manifest[j]))
Override(o, d) == IF Len(o) = 1 THEN o[1] ELSE d

\* C3 (as claimed): when main() returns on a configuration error (no input
\* mode, both input modes, or a manifest file that does not exist), no
\* directory has been created, no file written, and no job produced or
\* dispatched.
C3_ConfigErrorNoSideEffects ==
    LET neither == ~Truthy(args.Prompt) /\ ~Truthy(args.PromptJsonFile)
        both    == Truthy(args.Prompt) /\ Truthy(args.PromptJsonFile)
        missing == Truthy(args.PromptJsonFile) /\ ~fileExists
    IN  (pc = "exit" /\ (neither \/ both \/ missing)) =>
            /\ ~dirCreated
            /\ prompts_to_process = <<>>
            /\ calls = <<>>
            /\ DOMAIN staged = {}

SleepsIn(l) == Len(SelectSeq(l, LAMBDA e : e.ev = "sleep"))

\* C4: every suspension follows the saving of a job that is not the last one
\* and is followed by nothing but the dispatch of the next job, and happens
\* only with a positive delay; every dispatch of a job after the first is
\* preceded by the suspension for the job before it when the delay is
\* positive; a finished run over n jobs has suspended n-1 times with a
\* positive delay (0 times for n <= 1) and never with a delay of 0.
C4_SleepOnlyBetweenJobs ==
    LET n == Len(prompts_to_process)
    IN  /\ \A j \in 1..Len(log) :
              log[j].ev = "sleep" =>
                  /\ args.DelaySeconds > 0
                  /\ j > 1
                  /\ log[j - 1] = [ev |-> "saved", job |-> log[j].job]
                  /\ log[j].job < n
                  /\ j < Len(log) =>
                        log[j + 1] = [ev |-> "dispatch", job |-> log[j].job + 1]
        /\ \A j \in 1..Len(log) :
              (log[j].ev = "dispatch" /\ log[j].job > 1
                                       /\ args.DelaySeconds > 0) =>
                  log[j - 1] = [ev |-> "sleep", job |-> log[j].job - 1]
        /\ (pc = "exit" /\ exitReason = "ok") =>
              /\ SleepsIn(log) = IF args.DelaySeconds > 0 /\ n >= 1
                                 THEN n - 1 ELSE 0
              /\ Len(log) > 0 => log[Len(log)].ev = "saved"

\* a run over three jobs with a positive delay has ended
C4_Witness ==
    /\ pc = "exit"
    /\ exitReason = "ok"
    /\ args.DelaySeconds > 0
    /\ Len(prompts_to_process) = 3
    /\ SleepsIn(log) = 2

\* C5: in manifest mode, once the queue is built it holds one descriptor per
\* entry with a non-empty Prompt, description or title, in manifest order;
\* its prompt is the first non-empty of the three in that priority, and its
\* width, height, seed, steps, guidance scale and negative prompt are the
\* entry's own field when the entry has it, else the command line's value.
C5_OneJobPerUsableEntry ==
    (ManifestMode /\ QueueBuilt) =>
        /\ Len(built) = Len(UsableEntries)
        /\ \A c \in 1..Len(built) :
              LET e == manifest[UsableEntries[c]]
              IN  /\ built[c].prompt = FirstNonEmpty(e)
                  /\ built[c].width = Override(e.Width, args.Width)
                  /\ built[c].height = Override(e.Height, args.Height)
                  /\ built[c].seed = Override(e.Seed, args.Seed)
                  /\ built[c].steps = Override(e.Steps, args.Steps)
                  /\ built[c].cfg = Override(e.CFG, args.CFG)
                  /\ built[c].negative_prompt =
                         Override(e.NegativePrompt, args.NegativePrompt)

\* an entry without prompt text was skipped and a later entry, with its own
\* width, was built
C5_Witness ==
    /\ ManifestMode
    /\ QueueBuilt
    /\ Len(manifest) >= 2
    /\ ~HasText(manifest[1])
    /\ HasText(manifest[2])
    /\ Len(manifest[2].Width) = 1
    /\ Len(built) >= 1
    /\ built[1].width = manifest[2].Width[1]

\* C6 (as claimed): the generation capability is never invoked with a width
\* or height of 0.
C6_NoZeroDimensionDispatched ==
    \A c \in 1..Len(calls) : calls[c].width # 0 /\ calls[c].height # 0

\* C7 (as claimed): the output paths of the queue are pairwise different, and
\* after the run the staging area holds one file per completed job.
C7_DistinctOutputPaths ==
    /\ \A a, b \in 1..Len(prompts_to_process) :
          a # b => prompts_to_process[a].output_path
                   # prompts_to_process[b].output_path
    /\ Cardinality(DOMAIN staged) = Len(calls)

MaxSeed == WideSub(TwoPow32, 1)

\* C8 (as claimed): a job built with seed -1 is dispatched with a seed s,
\* 0 <= s < 2^32 - 1.
C8_SeedBelowUpperBound ==
    \A c \in 1..Len(calls) :
        built[calls[c].job].seed = Wide(-1) =>
            WideLe(Wide(0), calls[c].seed) /\ WideLt(calls[c].seed, MaxSeed)

\* C8 (amended): a job built with seed -1 is dispatched with a seed s,
\* 0 <= s <= 2^32 - 1; a job built with any other seed is dispatched with
\* exactly that seed; the descriptor in the queue keeps the seed it was built
\* with, -1 included, before and after its dispatch.
C8_SeedResolution ==
    /\ \A c \in 1..Len(calls) :
          IF built[calls[c].job].seed = Wide(-1)
          THEN WideLe(Wide(0), calls[c].seed) /\ WideLe(calls[c].seed, MaxSeed)
          ELSE calls[c].seed = built[calls[c].job].seed
    /\ Len(prompts_to_process) = Len(built)
    /\ \A j \in 1..Len(built) : prompts_to_process[j].seed = built[j].seed

\* one job was dispatched with its own seed and another, built with -1, with
\* the largest seed
C8_Witness ==
    /\ \E c \in 1..Len(calls) :
          /\ built[calls[c].job].seed = Wide(-1)
          /\ prompts_to_process[calls[c].job].seed = Wide(-1)
          /\ calls[c].seed = MaxSeed
    /\ \E c \in 1..Len(calls) :
          /\ built[calls[c].job].seed = Wide(3)
          /\ calls[c].seed = Wide(3)

FloorTo16(d, d2) == d2 % 16 = 0 /\ d2 <= d /\ d < d2 + 16
WarnedFor(j) == \E x \in 1..Len(warnings) : warnings[x].job = j

\* C9: every dispatched width and height is the largest multiple of 16 not
\* above the requested one, and differs from it iff the requested one is not
\* a multiple of 16; the adjustment warning is printed for exactly the jobs
\* with an adjusted width or height, and every job it is printed for is
\* dispatched.
C9_DimensionNormalization ==
    /\ \A c \in 1..Len(calls) :
          LET w  == built[calls[c].job].width
              h  == built[calls[c].job].height
              w2 == calls[c].width
              h2 == calls[c].height
          IN  (w > 0 /\ h > 0) =>
                  /\ FloorTo16(w, w2)
                  /\ FloorTo16(h, h2)
                  /\ w2 # w <=> w % 16 # 0
                  /\ h2 # h <=> h % 16 # 0
                  /\ WarnedFor(calls[c].job) <=> (w2 # w \/ h2 # h)
    /\ \A x \in 1..Len(warnings) :
          \E c \in 1..Len(calls) :
              /\ calls[c].job = warnings[x].job
              /\ calls[c].width = warnings[x].w
              /\ calls[c].height = warnings[x].h
              /\ built[calls[c].job].width = warnings[x].orig_w
              /\ built[calls[c].job].height = warnings[x].orig_h

\* a job asking for 33x32 was dispatched as 32x32 with the warning
C9_Witness ==
    \E c \in 1..Len(calls) :
        /\ built[calls[c].job].width = 33
        /\ built[calls[c].job].height = 32
        /\ calls[c].width = 32
        /\ calls[c].height = 32
        /\ WarnedFor(calls[c].job)

\* C10 (as claimed): the keyword synthesized for an entry is never empty and
\* holds only alphanumeric characters, "_" and "-".
C10_KeywordNeverEmpty ==
    \A j \in 1..Len(keywords) :
        /\ keywords[j] # <<>>
        /\ \A x \in 1..Len(keywords[j]) :
              isalnum(keywords[j][x]) \/ keywords[j][x] \in {"_", "-"}

====
